---------------------------- MODULE Spec2Model ----------------------------
(***************************************************************************)
(* A model of src/pretty-print.py, the gdb pretty printers of the kernel's *)
(* container and smart-pointer types.                                      *)
(*                                                                         *)
(* gdb hands a value to build_pretty_printer, which selects a printer by   *)
(* the value's type name; gdb then drives the printer's children()         *)
(* generator (or to_string()).  A behaviour of the model is one such       *)
(* inspection: Init draws the inspected value (its type and the target     *)
(* memory it views), build_pretty_printer selects the printer, and the     *)
(* remaining actions are the steps of the selected printer, one action per *)
(* loop iteration, so that a walk which never ends is an infinite          *)
(* behaviour.                                                              *)
(*                                                                         *)
(* Type names are sequences of tokens instead of sequences of characters:  *)
(* every literal of a dispatch regex is a whole number of tokens, and      *)
(* every name is built from the same tokens, so a regex matches a name     *)
(* character-wise exactly when it matches it token-wise.                   *)
(***************************************************************************)
EXTENDS Integers, Sequences, FiniteSets

VARIABLES
    vtype,      \* val.type of the inspected gdb.Value
    mem,        \* the target memory the value views (fields depend on the kind)
    printer,    \* what build_pretty_printer returned
    pc,         \* position of the running printer method
    out,        \* the (label, value) pairs children() has yielded so far
    result,     \* what to_string() returned
    nd,         \* rbtreePrinter.children: nd; listPrinter.children: node
    ret,        \* _leftmost / _next: ret
    idx,        \* loop index (i, idx, self.idx)
    item,       \* vectorPrinter._iterator: self.item
    endp        \* vectorPrinter._iterator: self.end

vars == <<vtype, mem, printer, pc, out, result, nd, ret, idx, item, endp>>

(***************************************************************************)
(* Bounds of the model.                                                    *)
(***************************************************************************)
MaxSize == 3        \* largest stored size of a vector or of an Arc slice
MaxTreeNodes == 3   \* node addresses of the red-black tree: 1..MaxTreeNodes
MaxListNodes == 2   \* list nodes besides the head sentinel
MaxFields == 3      \* most declared fields of a delegated value
MaxNest == 2        \* nesting depth of list/vector type names

NULL == 0

(***************************************************************************)
(* Python values.  A yielded value is either a gdb.Value (n is what it     *)
(* reads from the target) or a Python str.  str(i) is the decimal text of  *)
(* i.                                                                      *)
(***************************************************************************)
Value(n) == [cls |-> "gdb.Value", n |-> n, text |-> ""]
Text(s) == [cls |-> "str", n |-> 0, text |-> s]

Digit == <<"0", "1", "2", "3", "4", "5", "6", "7", "8", "9">>

RECURSIVE str(_)
str(n) == IF n < 10 THEN Digit[n + 1] ELSE str(n \div 10) \o Digit[(n % 10) + 1]

(***************************************************************************)
(* Type names and the dispatch regexes.                                    *)
(***************************************************************************)
Seg == {"cell::", "sync::", "ptr::", "vfs::"}       \* [a-z_]+::
Ident == {"int", "char", "false", "T", "L", "A", "current", "percpu", "foo"}
Tokens ==
    Seg \cup Ident \cup
    { "std::pair<", "std::tuple<", "std::function<", "std::reference_wrapper<",
      "std::list<", "std::vector<", "std::map<", "std::set<",
      "std::impl::rbtree<", "std::basic_string<", "types::string_view",
      "std::shared_ptr<", "std::unique_ptr<", "std::allocator<",
      "::_access_", "gbos_rust_part::sync::lock::Lock<",
      "gbos_rust_part::kernel::mem::paging::Page", "gbos_rust_part::kernel::",
      "Dentry", "core::", "alloc::", "UnsafeCell<", "NonNull<", "Arc<",
      "::_iterator<", ", ", ">" }

Lit(t) == [kind |-> "one", set |-> {t}]
DotStar == [kind |-> "star", set |-> Tokens]            \* .*  and  .*?
DotPlus == [kind |-> "plus", set |-> Tokens]           \* .+
Star(S) == [kind |-> "star", set |-> S]
Plus(S) == [kind |-> "plus", set |-> S]

\* re.compile(p).match(s) for an anchored pattern ^p$, by backtracking.
RECURSIVE Match(_, _)
Match(p, s) ==
    IF p = <<>> THEN s = <<>>
    ELSE LET h == Head(p) IN
         CASE h.kind = "one" ->
                s # <<>> /\ Head(s) \in h.set /\ Match(Tail(p), Tail(s))
           [] h.kind = "star" ->
                \/ Match(Tail(p), s)
                \/ s # <<>> /\ Head(s) \in h.set /\ Match(p, Tail(s))
           [] h.kind = "plus" ->
                s # <<>> /\ Head(s) \in h.set
                /\ Match(<<Star(h.set)>> \o Tail(p), Tail(s))

\* The rules of build_pretty_printer, in source order.
Rules == <<
    [re |-> <<Lit("std::pair<"), DotStar, Lit(", "), DotStar, Lit(">")>>,
     printer |-> "pairPrinter"],
    [re |-> <<Lit("std::tuple<"), DotStar, Lit(">")>>,
     printer |-> "tuplePrinter"],
    [re |-> <<Lit("std::function<"), DotStar, Lit(">")>>,
     printer |-> "functionPrinter"],
    [re |-> <<Lit("std::reference_wrapper<"), DotStar, Lit(">")>>,
     printer |-> "referenceWrapperPrinter"],
    [re |-> <<Lit("std::list<"), DotStar, Lit(", "), DotStar, Lit(">"),
              Lit("::_iterator<"), DotStar, Lit(">")>>,
     printer |-> "listIteratorPrinter"],
    [re |-> <<Lit("std::vector<"), DotStar, Lit(", "), DotStar, Lit(">"),
              Lit("::_iterator<"), DotStar, Lit(">")>>,
     printer |-> "vectorIteratorPrinter"],
    [re |-> <<Lit("std::list<"), DotStar, Lit(", "), DotStar, Lit(">")>>,
     printer |-> "listPrinter"],
    [re |-> <<Lit("std::vector<"), DotStar, Lit(", "), DotStar, Lit(">")>>,
     printer |-> "vectorPrinter"],
    [re |-> <<Lit("std::map<"), DotStar, Lit(", "), DotStar, Lit(", "), DotStar,
              Lit(", "), DotStar, Lit(">")>>,
     printer |-> "rbtreePrinter"],
    [re |-> <<Lit("std::set<"), DotStar, Lit(", "), DotStar, Lit(", "), DotStar, Lit(">")>>,
     printer |-> "rbtreePrinter"],
    [re |-> <<Lit("std::impl::rbtree<"), DotStar, Lit(", "), DotStar, Lit(", "), DotStar,
              Lit(">"), Lit("::_iterator<"), DotStar, Lit(">")>>,
     printer |-> "rbtreeIteratorPrinter"],
    [re |-> <<Lit("std::basic_string<"), DotStar, Lit(">")>>,
     printer |-> "stringPrinter"],
    [re |-> <<Lit("types::string_view")>>,
     printer |-> "stringViewPrinter"],
    [re |-> <<Lit("std::shared_ptr<"), DotStar, Lit(">")>>,
     printer |-> "sharedPointerPrinter"],
    [re |-> <<Lit("std::unique_ptr<"), DotStar, Lit(">")>>,
     printer |-> "uniquePointerPrinter"],
    [re |-> <<DotStar, Lit("::_access_"), Star(Ident)>>,
     printer |-> "ThreadLocalPrinter"],
    [re |-> <<Lit("gbos_rust_part::sync::lock::Lock<"), DotStar, Lit(">")>>,
     printer |-> "LockPrinter"],
    [re |-> <<Lit("gbos_rust_part::kernel::mem::paging::Page")>>,
     printer |-> "PagePrinter"],
    [re |-> <<Lit("gbos_rust_part::kernel::"), Star(Seg), Lit("Dentry")>>,
     printer |-> "DentryPrinter"],
    [re |-> <<Lit("core::"), Plus(Seg), Lit("UnsafeCell<"), DotPlus, Lit(">")>>,
     printer |-> "UnwrapPrinter"],
    [re |-> <<Lit("core::"), Plus(Seg), Lit("NonNull<"), DotPlus, Lit(">")>>,
     printer |-> "NonNullPrinter"],
    [re |-> <<Lit("alloc::"), Plus(Seg), Lit("Arc<"), DotPlus, Lit(">")>>,
     printer |-> "ArcPrinter"] >>

\* The chain of `if re.compile(...).match(typename): return ...`, from rule k on.
RECURSIVE FirstMatch(_, _)
FirstMatch(typename, k) ==
    IF k > Len(Rules) THEN "None"
    ELSE IF Match(Rules[k].re, typename) THEN Rules[k].printer
    ELSE FirstMatch(typename, k + 1)

(***************************************************************************)
(* gdb.Type.  code is the type code; name is the tag of a struct, and for  *)
(* a pointer, a reference or a typedef the tag of the struct it targets.   *)
(* A type without a tag has tag None, the empty name.                      *)
(***************************************************************************)
None == <<>>

unqualified(t) == [t EXCEPT !.const = FALSE]
strip_typedefs(t) == IF t.code = "typedef" THEN [t EXCEPT !.code = "struct"] ELSE t
tag(t) == IF t.code = "struct" THEN t.name ELSE None

\* build_pretty_printer(val): the printer's class name, or "None".
build_pretty_printer_of(t) ==
    LET type == strip_typedefs(unqualified(t))
        typename == tag(type)
    IN  IF typename = None THEN "None" ELSE FirstMatch(typename, 1)

\* Type names as the compiler spells them.
Alloc(T) == <<"std::allocator<">> \o T \o <<">">>
Vec(T) == <<"std::vector<">> \o T \o <<", ">> \o Alloc(T) \o <<">">>
List(T) == <<"std::list<">> \o T \o <<", ">> \o Alloc(T) \o <<">">>
Iter(C) == C \o <<"::_iterator<", "false", ">">>

RECURSIVE ElemNames(_)
ElemNames(d) ==
    IF d = 0 THEN {<<"int">>}
    ELSE LET E == ElemNames(d - 1)
             C == {Vec(e) : e \in E} \cup {List(e) : e \in E}
         IN  E \cup C \cup {Iter(c) : c \in C}

PlainVectorNames == {Vec(e) : e \in ElemNames(MaxNest - 1)}
PlainListNames == {List(e) : e \in ElemNames(MaxNest - 1)}
VectorIteratorNames == {Iter(c) : c \in PlainVectorNames}
ListIteratorNames == {Iter(c) : c \in PlainListNames}

MapName == <<"std::map<", "int", ", ", "int", ", ", "L", ", ", "A", ">">>
SetName == <<"std::set<", "int", ", ", "L", ", ", "A", ">">>
StringName == <<"std::basic_string<", "char", ">">>
UnsafeCellName == <<"core::", "cell::", "UnsafeCell<", "T", ">">>
ArcName == <<"alloc::", "sync::", "Arc<", "T", ">">>

OtherNames ==
    { <<"std::pair<", "int", ", ", "int", ">">>,
      <<"std::tuple<", "int", ">">>,
      <<"std::function<", "T", ">">>,
      <<"std::reference_wrapper<", "T", ">">>,
      <<"std::impl::rbtree<", "int", ", ", "L", ", ", "A", ">",
        "::_iterator<", "false", ">">>,
      <<"types::string_view">>,
      <<"std::shared_ptr<", "T", ">">>,
      <<"std::unique_ptr<", "T", ">">>,
      <<"percpu", "::_access_", "current">>,
      <<"gbos_rust_part::sync::lock::Lock<", "T", ">">>,
      <<"gbos_rust_part::kernel::mem::paging::Page">>,
      <<"gbos_rust_part::kernel::", "vfs::", "Dentry">>,
      <<"core::", "ptr::", "NonNull<", "T", ">">>,
      <<"foo">>,
      MapName, SetName, StringName, UnsafeCellName, ArcName }

TypeNames ==
    PlainVectorNames \cup PlainListNames \cup VectorIteratorNames
        \cup ListIteratorNames \cup OtherNames

Struct(name) == [code |-> "struct", const |-> FALSE, name |-> name]

\* The types a value handed to build_pretty_printer can have.
Types ==
    [code : {"struct", "typedef", "ptr", "ref"}, const : BOOLEAN, name : TypeNames]
        \cup {[code |-> "struct", const |-> FALSE, name |-> None],
              [code |-> "int", const |-> FALSE, name |-> None]}

(***************************************************************************)
(* Target memory of a red-black tree (std::map, std::set): the root        *)
(* pointer and the size of val['tree'], and the left, right, parent and    *)
(* value fields of the nodes at addresses 1..MaxTreeNodes.                 *)
(***************************************************************************)
TreeAddrs == 1..MaxTreeNodes

\* The binary trees whose in-order sequence is lo..hi: the root's position
\* and the edges <<parent position, child position, side>>.
RECURSIVE Shapes(_, _)
Shapes(lo, hi) ==
    IF lo > hi THEN {[root |-> NULL, E |-> {}]}
    ELSE UNION {
        { [root |-> r,
           E |-> L.E \cup R.E
                 \cup (IF L.root = NULL THEN {} ELSE {<<r, L.root, "left">>})
                 \cup (IF R.root = NULL THEN {} ELSE {<<r, R.root, "right">>})]
          : L \in Shapes(lo, r - 1), R \in Shapes(r + 1, hi) }
        : r \in lo..hi }

Injections(n) ==
    {p \in [1..n -> TreeAddrs] : \A i, j \in 1..n : p[i] = p[j] => i = j}

Child(s, n, p, a, side) ==
    IF \E e \in s.E : p[e[1]] = a /\ e[3] = side
    THEN p[(CHOOSE e \in s.E : p[e[1]] = a /\ e[3] = side)[2]]
    ELSE NULL

\* The tree of shape s over n nodes, the node of in-order position k stored at
\* address p[k] and holding the key 10 * k.
TreeMem(s, n, p) ==
    [root |-> IF s.root = NULL THEN NULL ELSE p[s.root],
     left |-> [a \in TreeAddrs |-> Child(s, n, p, a, "left")],
     right |-> [a \in TreeAddrs |-> Child(s, n, p, a, "right")],
     parent |-> [a \in TreeAddrs |->
                    IF \E e \in s.E : p[e[2]] = a
                    THEN p[(CHOOSE e \in s.E : p[e[2]] = a)[1]]
                    ELSE NULL],
     value |-> [a \in TreeAddrs |->
                    IF \E k \in 1..n : p[k] = a
                    THEN 10 * (CHOOSE k \in 1..n : p[k] = a)
                    ELSE 0]]

WellFormedTrees ==
    UNION { {TreeMem(s, n, p) : s \in Shapes(1, n), p \in Injections(n)}
            : n \in 0..MaxTreeNodes }

\* A tree with one pointer overwritten (a corrupted tree).
Corruptions(t) ==
    {[t EXCEPT !.root = v] : v \in TreeAddrs \cup {NULL}}
    \cup {[t EXCEPT !.left[a] = v] : a \in TreeAddrs, v \in TreeAddrs \cup {NULL}}
    \cup {[t EXCEPT !.right[a] = v] : a \in TreeAddrs, v \in TreeAddrs \cup {NULL}}
    \cup {[t EXCEPT !.parent[a] = v] : a \in TreeAddrs, v \in TreeAddrs \cup {NULL}}

CorruptedTrees ==
    UNION { UNION { Corruptions(TreeMem(s, n, [k \in 1..n |-> k]))
                    : s \in Shapes(1, n) }
            : n \in 1..MaxTreeNodes }

TreeSizes == 0..(MaxTreeNodes + 1)

(***************************************************************************)
(* Target memory of a std::list: m_head is the sentinel at HeadAddr, the   *)
(* nodes are at NodeAddrs, and next is each one's next pointer.            *)
(***************************************************************************)
HeadAddr == 1
NodeAddrs == 2..(MaxListNodes + 1)
ListAddrs == {HeadAddr} \cup NodeAddrs
ListYieldCap == MaxListNodes + 2

(***************************************************************************)
(* The inspected values.                                                   *)
(***************************************************************************)
VectorBases == {1, 5}
Bytes == {7, 9}
InlineTexts == {"ab", "cd"}
HeapTexts == {"wx", "yz"}

RECURSIVE FieldLists(_)
FieldLists(n) ==
    IF n = 0 THEN {<<>>}
    ELSE LET F == FieldLists(n - 1) IN
         F \cup { Append(f, [name |-> "f" \o str(n), ok |-> b, v |-> 40 + n])
                  : f \in {g \in F : Len(g) = n - 1}, b \in BOOLEAN }

Seqs(S, n) == UNION {[1..k -> S] : k \in 0..n}

InitLocals ==
    /\ printer = "unset"
    /\ pc = "lookup"
    /\ out = <<>>
    /\ result = ""
    /\ nd = NULL
    /\ ret = NULL
    /\ idx = 0
    /\ item = 0
    /\ endp = 0

InitOpaque ==
    /\ vtype \in Types
    /\ mem = [kind |-> "opaque"]

InitVector ==
    /\ vtype = Struct(Vec(<<"int">>))
    /\ \E S \in 0..MaxSize, d \in VectorBases :
       \E c \in [d..(d + MaxSize) -> Bytes] :
          mem = [kind |-> "vector", m_size |-> S, m_capacity |-> MaxSize,
                 m_data |-> d, cells |-> c]

InitList ==
    /\ vtype = Struct(List(<<"int">>))
    /\ \E S \in 0..MaxListNodes, n \in [ListAddrs -> ListAddrs \cup {NULL}] :
          mem = [kind |-> "list", m_size |-> S, next |-> n,
                 value |-> [a \in NodeAddrs |-> 20 + a]]

InitTree ==
    /\ vtype \in {Struct(MapName)}
    /\ \E t \in WellFormedTrees \cup CorruptedTrees, S \in TreeSizes :
          mem = [kind |-> "tree", root |-> t.root, size |-> S, left |-> t.left,
                 right |-> t.right, parent |-> t.parent, value |-> t.value]

InitString ==
    /\ vtype = Struct(StringName)
    /\ \E e \in {0, 1, 255}, s \in InlineTexts, h \in HeapTexts :
          mem = [kind |-> "string", end |-> e, str |-> s, m_ptr |-> h]

InitArc ==
    /\ vtype = Struct(ArcName)
    /\ \/ \E r \in Seqs(BOOLEAN, MaxSize) : \E d \in [1..Len(r) -> Bytes] :
             mem = [kind |-> "arc", is_slice |-> TRUE, length |-> Len(r),
                    readable |-> r, data |-> d]
       \/ \E f \in FieldLists(MaxFields), st \in BOOLEAN :
             /\ (~st => f = <<>>)
             /\ mem = [kind |-> "arc", is_slice |-> FALSE, is_struct |-> st,
                       fields |-> f]

InitCell ==
    /\ vtype = Struct(UnsafeCellName)
    /\ \E f \in FieldLists(MaxFields), st \in BOOLEAN :
          /\ (~st => f = <<>>)
          /\ mem = [kind |-> "cell", is_struct |-> st, fields |-> f]

Init ==
    /\ InitLocals
    /\ \/ InitOpaque
       \/ InitVector
       \/ InitList
       \/ InitTree
       \/ InitString
       \/ InitArc
       \/ InitCell

(***************************************************************************)
(* build_pretty_printer.  The printers whose memory the model holds go on  *)
(* to children() or to_string(); for every other value the inspection ends *)
(* with the selection.                                                     *)
(***************************************************************************)
build_pretty_printer ==
    /\ pc = "lookup"
    /\ printer' = build_pretty_printer_of(vtype)
    /\ pc' = IF mem.kind = "opaque" \/ printer' = "None" THEN "done"
             ELSE IF printer' = "stringPrinter" THEN "to_string"
             ELSE "children"
    /\ UNCHANGED <<vtype, mem, out, result, nd, ret, idx, item, endp>>

(***************************************************************************)
(* vectorPrinter                                                           *)
(***************************************************************************)
\* children(): [] for size 0, else _iterator(data, data + m_size, 0).
vectorPrinter_children ==
    /\ pc = "children" /\ printer = "vectorPrinter" /\ mem.kind = "vector"
    /\ IF mem.m_size = 0
       THEN /\ pc' = "done"
            /\ UNCHANGED <<item, endp, idx>>
       ELSE /\ item' = mem.m_data
            /\ endp' = mem.m_data + mem.m_size
            /\ idx' = 0
            /\ pc' = "vector_next"
    /\ UNCHANGED <<vtype, mem, printer, out, result, nd, ret>>

\* A variant of vector_exhausted: the test written `>` instead of `>=`.
vector_exhausted_off_by_one(it, e) == it > e

\* _iterator.__next__: the test that raises StopIteration.
vector_exhausted(it, e) == it >= e

\* _iterator.__next__
vectorPrinter_next ==
    /\ pc = "vector_next"
    /\ IF vector_exhausted(item, endp)
       THEN /\ pc' = "done"
            /\ UNCHANGED <<out, item, idx>>
       ELSE /\ out' = Append(out, <<str(idx), Value(mem.cells[item])>>)
            /\ item' = item + 1
            /\ idx' = idx + 1
            /\ pc' = "vector_next"
    /\ UNCHANGED <<vtype, mem, printer, result, nd, ret, endp>>

(***************************************************************************)
(* rbtreePrinter, _leftmost and _next.  A step is a record: where the      *)
(* generator goes on, and the new nd and ret.                              *)
(***************************************************************************)
Step(p, n, r) == [pc |-> p, nd |-> n, ret |-> r]

\* children(), up to the call of _leftmost(root.dereference()).
rbtree_begin(m) ==
    IF m.root = NULL THEN Step("done", NULL, NULL)
    ELSE Step("leftmost", NULL, m.root)

\* _leftmost: the test `while ret['left'] != 0`; when it fails, `return ret`,
\* and the caller assigns the result to nd.
leftmost_test(m, n, r) ==
    IF m.left[r] # NULL THEN Step("leftmost_body", n, r)
    ELSE Step("for", r, r)

\* _leftmost: the loop's body, `ret = ret['left'].dereference()`.
leftmost_body(m, n, r) == Step("leftmost", n, m.left[r])

\* A variant of next_begin: the parent is returned without the test that the
\* node is its left child.
next_begin_no_left_test(m, node) ==
    IF m.right[node] # NULL THEN Step("leftmost", node, m.right[node])
    ELSE IF m.parent[node] = NULL THEN Step("done", NULL, NULL)
    ELSE Step("for", m.parent[node], NULL)

\* _next(node) up to its `while True`.
next_begin(m, node) ==
    IF m.right[node] # NULL THEN Step("leftmost", node, m.right[node])
    ELSE IF m.parent[node] = NULL THEN Step("done", NULL, NULL)
    ELSE IF m.left[m.parent[node]] = node THEN Step("for", m.parent[node], NULL)
    ELSE Step("climb", node, node)

\* _next: the first statement of its `while True`,
\* `ret = ret['parent'].dereference()`.
climb_up(m, n, r) == Step("climb_test", n, m.parent[r])

\* A variant of climb_test: on reaching the root the walk goes on at the root
\* instead of returning None.
climb_test_wraps(m, n, r) ==
    IF m.parent[r] = NULL THEN Step("for", r, NULL)
    ELSE IF m.left[m.parent[r]] = r THEN Step("for", m.parent[r], NULL)
    ELSE Step("climb", n, r)

\* _next: the two tests of its `while True`, and the return after the loop.
climb_test(m, n, r) ==
    IF m.parent[r] = NULL THEN Step("done", NULL, NULL)
    ELSE IF m.left[m.parent[r]] = r THEN Step("for", m.parent[r], NULL)
    ELSE Step("climb", n, r)

Goto(s) ==
    /\ pc' = s.pc
    /\ nd' = s.nd
    /\ ret' = s.ret

rbtreePrinter_children ==
    /\ pc = "children" /\ printer = "rbtreePrinter" /\ mem.kind = "tree"
    /\ Goto(rbtree_begin(mem))
    /\ idx' = 0
    /\ UNCHANGED <<vtype, mem, printer, out, result, item, endp>>

rbtree_leftmost_test ==
    /\ pc = "leftmost"
    /\ Goto(leftmost_test(mem, nd, ret))
    /\ UNCHANGED <<vtype, mem, printer, out, result, idx, item, endp>>

rbtree_leftmost_body ==
    /\ pc = "leftmost_body"
    /\ Goto(leftmost_body(mem, nd, ret))
    /\ UNCHANGED <<vtype, mem, printer, out, result, idx, item, endp>>

\* `for i in range(size): yield str(i), nd['value']`
rbtree_for ==
    /\ pc = "for"
    /\ IF idx < mem.size
       THEN /\ out' = Append(out, <<str(idx), Value(mem.value[nd])>>)
            /\ idx' = idx + 1
            /\ pc' = "next"
       ELSE /\ pc' = "done"
            /\ UNCHANGED <<out, idx>>
    /\ UNCHANGED <<vtype, mem, printer, result, nd, ret, item, endp>>

\* `nd = _next(nd)`, and `if nd == None: break` when it returns None.
rbtree_next ==
    /\ pc = "next"
    /\ Goto(next_begin(mem, nd))
    /\ UNCHANGED <<vtype, mem, printer, out, result, idx, item, endp>>

rbtree_climb_up ==
    /\ pc = "climb"
    /\ Goto(climb_up(mem, nd, ret))
    /\ UNCHANGED <<vtype, mem, printer, out, result, idx, item, endp>>

rbtree_climb_test ==
    /\ pc = "climb_test"
    /\ Goto(climb_test(mem, nd, ret))
    /\ UNCHANGED <<vtype, mem, printer, out, result, idx, item, endp>>

(***************************************************************************)
(* stringPrinter                                                           *)
(***************************************************************************)
\* A variant of string_to_string with the two branches exchanged.
string_to_string_swapped(m) == IF m.end = 0 THEN m.m_ptr ELSE m.str

\* to_string(): the inline buffer when stackdata.end is 0, else the heap pointer.
string_to_string(m) == IF m.end = 0 THEN m.str ELSE m.m_ptr

stringPrinter_to_string ==
    /\ pc = "to_string" /\ printer = "stringPrinter" /\ mem.kind = "string"
    /\ result' = string_to_string(mem)
    /\ pc' = "done"
    /\ UNCHANGED <<vtype, mem, printer, out, nd, ret, idx, item, endp>>

(***************************************************************************)
(* listPrinter                                                             *)
(***************************************************************************)
\* children() up to its loop: node = head['next'].
listPrinter_children ==
    /\ pc = "children" /\ printer = "listPrinter" /\ mem.kind = "list"
    /\ nd' = mem.next[HeadAddr]
    /\ idx' = 0
    /\ pc' = "list_loop"
    /\ UNCHANGED <<vtype, mem, printer, out, result, ret, item, endp>>

\* The test `while node != head.address`.
listPrinter_test ==
    /\ pc = "list_loop"
    /\ pc' = IF nd = HeadAddr THEN "done" ELSE "list_body"
    /\ UNCHANGED <<vtype, mem, printer, out, result, nd, ret, idx, item, endp>>

\* The entry the loop's body yields for the node at address a.  Through a null
\* node the value is lazy and unreadable.
list_entry(m, i, a) ==
    IF a = NULL THEN <<str(i), Text("<unreadable>")>>
    ELSE <<str(i), Value(m.value[a])>>

\* The loop's body.  Through a null node `node['next']` is lazy too, and the
\* next test of the loop, which fetches it, raises gdb.MemoryError.  The model
\* keeps the first ListYieldCap entries of a walk and counts no further, so
\* that a walk which never ends is a cycle of states.
listPrinter_body ==
    /\ pc = "list_body"
    /\ out' = IF idx >= ListYieldCap THEN out
              ELSE Append(out, list_entry(mem, idx, nd))
    /\ idx' = IF idx >= ListYieldCap THEN idx ELSE idx + 1
    /\ IF nd = NULL
       THEN pc' = "fault" /\ UNCHANGED nd
       ELSE pc' = "list_loop" /\ nd' = mem.next[nd]
    /\ UNCHANGED <<vtype, mem, printer, result, ret, item, endp>>

(***************************************************************************)
(* delegateChildren, UnwrapPrinter and ArcPrinter                          *)
(***************************************************************************)
\* UnwrapPrinter.children(): delegateChildren(self.val[self.name]).
UnwrapPrinter_children ==
    /\ pc = "children" /\ printer = "UnwrapPrinter" /\ mem.kind = "cell"
    /\ idx' = 0
    /\ pc' = "delegate"
    /\ UNCHANGED <<vtype, mem, printer, out, result, nd, ret, item, endp>>

\* A variant of delegate_field with one try around the whole loop: the first
\* field that faults ends the generator.
delegate_field_aborts(m, i) ==
    IF ~m.is_struct \/ i >= Len(m.fields) THEN [pc |-> "done", yield |-> <<>>]
    ELSE LET field == m.fields[i + 1] IN
         IF field.ok
         THEN [pc |-> "delegate", yield |-> <<<<field.name, Value(field.v)>>>>]
         ELSE [pc |-> "done", yield |-> <<<<field.name, Text("<Error>")>>>>]

\* What delegateChildren does with the field after the i fields already
\* yielded: the entry it yields, or the end of the generator.
delegate_field(m, i) ==
    IF ~m.is_struct \/ i >= Len(m.fields) THEN [pc |-> "done", yield |-> <<>>]
    ELSE LET field == m.fields[i + 1] IN
         IF field.ok
         THEN [pc |-> "delegate", yield |-> <<<<field.name, Value(field.v)>>>>]
         ELSE [pc |-> "delegate", yield |-> <<<<field.name, Text("<Error>")>>>>]

delegateChildren ==
    /\ pc = "delegate"
    /\ LET s == delegate_field(mem, idx) IN
       /\ pc' = s.pc
       /\ out' = out \o s.yield
       /\ idx' = idx + Len(s.yield)
    /\ UNCHANGED <<vtype, mem, printer, result, nd, ret, item, endp>>

\* ArcPrinter.children() up to its loops.
ArcPrinter_children ==
    /\ pc = "children" /\ printer = "ArcPrinter" /\ mem.kind = "arc"
    /\ idx' = 0
    /\ pc' = IF mem.is_slice THEN "arc_loop" ELSE "delegate"
    /\ UNCHANGED <<vtype, mem, printer, out, result, nd, ret, item, endp>>

\* A variant of arc_element without the `break` after "[inaccessible]".
arc_element_no_break(m, i) ==
    IF i >= m.length THEN [pc |-> "done", yield |-> <<>>]
    ELSE IF m.readable[i + 1]
    THEN [pc |-> "arc_loop", yield |-> <<<<str(i), Value(m.data[i + 1])>>>>]
    ELSE [pc |-> "arc_loop", yield |-> <<<<str(i), Text("[inaccessible]")>>>>]

\* One iteration of the slice loop: the entry it yields and where it goes on.
arc_element(m, i) ==
    IF i >= m.length THEN [pc |-> "done", yield |-> <<>>]
    ELSE IF m.readable[i + 1]
    THEN [pc |-> "arc_loop", yield |-> <<<<str(i), Value(m.data[i + 1])>>>>]
    ELSE [pc |-> "done", yield |-> <<<<str(i), Text("[inaccessible]")>>>>]

ArcPrinter_loop ==
    /\ pc = "arc_loop"
    /\ LET s == arc_element(mem, idx) IN
       /\ pc' = s.pc
       /\ out' = out \o s.yield
       /\ idx' = idx + Len(s.yield)
    /\ UNCHANGED <<vtype, mem, printer, result, nd, ret, item, endp>>

Next ==
    \/ build_pretty_printer
    \/ vectorPrinter_children
    \/ vectorPrinter_next
    \/ rbtreePrinter_children
    \/ rbtree_leftmost_test
    \/ rbtree_leftmost_body
    \/ rbtree_for
    \/ rbtree_next
    \/ rbtree_climb_up
    \/ rbtree_climb_test
    \/ stringPrinter_to_string
    \/ listPrinter_children
    \/ listPrinter_test
    \/ listPrinter_body
    \/ UnwrapPrinter_children
    \/ delegateChildren
    \/ ArcPrinter_children
    \/ ArcPrinter_loop

Spec == Init /\ [][Next]_vars

\* The printers run synchronously: a method that can take a step takes it.
FairSpec == Spec /\ WF_vars(Next)

(***************************************************************************)
(* What the claims speak of.                                               *)
(***************************************************************************)
Terminated == pc \in {"done", "fault"}

IsPrefix(s, t) == Len(s) <= Len(t) /\ \A i \in 1..Len(s) : s[i] = t[i]

\* The nodes under n in in-order, by recursion on the left and right
\* pointers, to the depth `fuel`.
RECURSIVE InOrder(_, _, _)
InOrder(m, n, fuel) ==
    IF n = NULL \/ fuel = 0 THEN <<>>
    ELSE InOrder(m, m.left[n], fuel - 1) \o <<n>> \o InOrder(m, m.right[n], fuel - 1)

TreeNodes(m) == InOrder(m, m.root, MaxTreeNodes + 1)

\* The memory holds a search tree: no node is met twice from the root, the
\* parent pointers mirror the child pointers, and the keys ascend in in-order.
IsTree(m) ==
    LET s == TreeNodes(m) IN
    /\ \A i, j \in 1..Len(s) : s[i] = s[j] => i = j
    /\ m.root # NULL => m.parent[m.root] = NULL
    /\ \A i \in 1..Len(s) :
          /\ m.left[s[i]] # NULL => m.parent[m.left[s[i]]] = s[i]
          /\ m.right[s[i]] # NULL => m.parent[m.right[s[i]]] = s[i]
    /\ \A i \in 1..(Len(s) - 1) : m.value[s[i]] < m.value[s[i + 1]]

\* The entries of the first k nodes of the tree in in-order.
TreeEntries(m, k) ==
    [i \in 1..k |-> <<str(i - 1), Value(m.value[TreeNodes(m)[i]])>>]

\* C1: on a well-formed tree of S nodes whose stored size is S, children()
\* yields the S entries (str(i), value of the i-th node in in-order), i = 0..S-1,
\* the values in ascending key order and each node once, and ends without raising.
C1_InOrderRoundTrip ==
    (mem.kind = "tree" /\ IsTree(mem) /\ mem.size = Len(TreeNodes(mem))) =>
        /\ IsPrefix(out, TreeEntries(mem, mem.size))
        /\ pc # "fault"
        /\ pc = "done" => out = TreeEntries(mem, mem.size)

C1_Witness ==
    /\ mem.kind = "tree" /\ IsTree(mem) /\ mem.size = Len(TreeNodes(mem))
    /\ pc = "done"
    /\ Len(out) = MaxTreeNodes
    /\ mem.root # NULL /\ mem.left[mem.root] # NULL
    /\ mem.right[mem.left[mem.root]] # NULL
    /\ out = TreeEntries(mem, MaxTreeNodes)

\* C2: listPrinter.children() terminates for every list memory: once started
\* it ends, by reaching the head's address or by raising.
C2_ListTerminates ==
    (pc = "children" /\ printer = "listPrinter") ~> Terminated

\* C3 (as claimed): stackdata.end = 0 reads the text through heapdata.m_ptr and
\* a non-zero stackdata.end reads stackdata.str.
C3_Original ==
    (mem.kind = "string" /\ pc = "done") =>
        /\ mem.end = 0 => result = mem.m_ptr
        /\ mem.end # 0 => result = mem.str

\* C3 (amended): stackdata.end = 0 reads the inline buffer stackdata.str and a
\* non-zero stackdata.end reads the text through heapdata.m_ptr.
C3_EndMarkerSelects ==
    (mem.kind = "string" /\ pc = "done") =>
        /\ mem.end = 0 => result = mem.str
        /\ mem.end # 0 => result = mem.m_ptr

C3_Witness ==
    /\ mem.kind = "string" /\ pc = "done"
    /\ mem.end = 0
    /\ result = mem.str
    /\ result # mem.m_ptr

\* The entries of the first k elements of the vector.
VectorEntries(m, k) ==
    [i \in 1..k |-> <<str(i - 1), Value(m.cells[m.m_data + i - 1])>>]

\* C4: for a vector of stored size S >= 0, children() yields exactly the S
\* entries (str(i), element at data + i), i = 0..S-1 in increasing order, none
\* for S = 0, and raises nothing.
C4_VectorChildren ==
    mem.kind = "vector" =>
        /\ IsPrefix(out, VectorEntries(mem, mem.m_size))
        /\ pc # "fault"
        /\ pc = "done" => out = VectorEntries(mem, mem.m_size)

C4_Witness ==
    /\ mem.kind = "vector" /\ pc = "done"
    /\ mem.m_size = MaxSize
    /\ Len(out) = MaxSize
    /\ out[1] # out[MaxSize]

\* The index (from 1) of the first unreadable element of a slice, or 0.
FirstUnreadable(m) ==
    IF \E k \in 1..m.length : ~m.readable[k]
    THEN CHOOSE k \in 1..m.length :
            ~m.readable[k] /\ \A j \in 1..(k - 1) : m.readable[j]
    ELSE 0

\* The k entries before the unreadable element k (from 0), then its marker.
ArcEntries(m, k) ==
    [i \in 1..(k + 1) |->
        IF i <= k THEN <<str(i - 1), Value(m.data[i])>>
        ELSE <<str(k), Text("[inaccessible]")>>]

\* C5: on an Arc slice whose element k is the first unreadable one, children()
\* yields the k entries (str(i), element i), i < k, then (str(k),
\* "[inaccessible]"), and ends: no entry of an index above k is yielded.
C5_ArcSliceStopsAtFault ==
    (mem.kind = "arc" /\ mem.is_slice /\ FirstUnreadable(mem) # 0) =>
        /\ IsPrefix(out, ArcEntries(mem, FirstUnreadable(mem) - 1))
        /\ pc # "fault"
        /\ pc = "done" => out = ArcEntries(mem, FirstUnreadable(mem) - 1)

C5_Witness ==
    /\ mem.kind = "arc" /\ mem.is_slice /\ pc = "done"
    /\ mem.length = MaxSize
    /\ FirstUnreadable(mem) = 2
    /\ mem.readable[MaxSize]
    /\ Len(out) = 2
    /\ out[2] = <<"1", Text("[inaccessible]")>>

\* C6: children() never yields more than the tree holds: nothing when root is
\* null, whatever the stored size; never more than the stored size; and on a
\* tree of n nodes with a stored size above n exactly the n entries of its
\* nodes, after which it ends without raising.
C6_TruncatesToTree ==
    mem.kind = "tree" =>
        /\ mem.root = NULL => out = <<>>
        /\ Len(out) <= mem.size
        /\ IsTree(mem) =>
              /\ Len(out) <= Len(TreeNodes(mem))
              /\ pc # "fault"
              /\ (pc = "done" /\ mem.size > Len(TreeNodes(mem))) =>
                    out = TreeEntries(mem, Len(TreeNodes(mem)))

C6_Witness ==
    /\ mem.kind = "tree" /\ IsTree(mem) /\ pc = "done"
    /\ mem.root # NULL /\ mem.right[mem.root] # NULL
    /\ Len(TreeNodes(mem)) = 2
    /\ mem.size > 2
    /\ Len(out) = 2

\* C7: a value whose stripped type is a pointer or a reference to a struct
\* gets the printer that the pointee's type name selects.
C7_PointerDispatch ==
    (pc # "lookup" /\ vtype.code \in {"ptr", "ref"}) =>
        printer = FirstMatch(vtype.name, 1)

\* C8: an iterator type of a list or vector selects the iterator printer of
\* its container and never listPrinter or vectorPrinter; a plain list or
\* vector type selects listPrinter or vectorPrinter and never an iterator
\* printer.
C8_IteratorBeforeContainer ==
    (pc # "lookup" /\ vtype.code = "struct") =>
        /\ vtype.name \in ListIteratorNames => printer = "listIteratorPrinter"
        /\ vtype.name \in VectorIteratorNames => printer = "vectorIteratorPrinter"
        /\ vtype.name \in PlainListNames => printer = "listPrinter"
        /\ vtype.name \in PlainVectorNames => printer = "vectorPrinter"

\* The entry of a declared field.
FieldEntry(f) ==
    IF f.ok THEN <<f.name, Value(f.v)>> ELSE <<f.name, Text("<Error>")>>

Delegated ==
    \/ mem.kind = "cell"
    \/ mem.kind = "arc" /\ ~mem.is_slice

\* C9: on a value with the declared fields f1..fn of which exactly one faults
\* when read, delegateChildren yields n entries in declaration order, (fi,
\* value) for the readable fields and (fj, "<Error>") for the faulting one.
C9_OneBadField ==
    (Delegated /\ mem.is_struct
        /\ Cardinality({i \in 1..Len(mem.fields) : ~mem.fields[i].ok}) = 1) =>
        /\ IsPrefix(out, [i \in 1..Len(mem.fields) |-> FieldEntry(mem.fields[i])])
        /\ pc # "fault"
        /\ pc = "done" => out = [i \in 1..Len(mem.fields) |-> FieldEntry(mem.fields[i])]

C9_Witness ==
    /\ Delegated /\ mem.is_struct /\ pc = "done"
    /\ Len(mem.fields) = MaxFields
    /\ {i \in 1..Len(mem.fields) : ~mem.fields[i].ok} = {1}
    /\ Len(out) = MaxFields
    /\ out[1] = <<"f1", Text("<Error>")>>
    /\ out[MaxFields][2].cls = "gdb.Value"

\* C10: a call of the tree printer's children() terminates for any contents
\* of the left, right and parent pointers.
C10_TreeTerminates ==
    (pc = "children" /\ printer = "rbtreePrinter") ~> Terminated

=============================================================================
